---------------------------- MODULE Spec2Model ----------------------------
(***************************************************************************)
(* SHA3-256 as implemented in sha3.go: the Keccak-f[1600] permutation, the *)
(* padding, and the sponge driver sha3_256, called by one caller in        *)
(* sequence (Spec), by two callers at once (SpecConc), and pad on its own  *)
(* (SpecPad).                                                              *)
(*                                                                         *)
(* A uint64 lane is the set of the positions (0 = least significant) of    *)
(* its 1 bits, so that the 64-bit operations are exact.  A byte is a number  *)
(* in 0..255.  Go arrays and slices are sequences, so index i of the code  *)
(* is index i+1 here.                                                      *)
(***************************************************************************)
EXTENDS Integers, Sequences

\* const W = 64: the word size; lane bits are 0..W-1.
W == 64
\* const RATE = 1088: the rate of SHA3-256 in bits.
RATE == 1088

BitPos == 0 .. (W - 1)
Byte == 0 .. 255

Pow2(n) == 2 ^ n

\* ------------------------------------------------------------------- uint64
\* XOR is the symmetric difference, AND the intersection, OR the union and
\* NOT the complement in 0..63.
Xor(p, q) == (p \ q) \cup (q \ p)
And(p, q) == p \cap q
Or(p, q) == p \cup q
\* ^x on a uint64
Not(p) == BitPos \ p
\* x << n and x >> n on a uint64, n >= 0: the positions move by n and those
\* that leave 0..63 are dropped, so a shift count >= 64 yields 0, as in Go.
Shl(p, n) == {i + n : i \in p} \cap BitPos
Shr(p, n) == {i - n : i \in p} \cap BitPos

\* uint64(b) for a byte b
ByteLane(b) == {i \in 0 .. 7 : (b \div Pow2(i)) % 2 = 1}
\* byte(word): the low 8 bits of the lane as a number
LowByte(p) == LET RECURSIVE sum(_)
                  sum(i) == IF i = 8 THEN 0
                            ELSE (IF i \in p THEN Pow2(i) ELSE 0) + sum(i + 1)
              IN sum(0)
\* The uint64 written 0xHHHH_HHHH_HHHH_HHHH, from its four 16-bit groups,
\* most significant first.
Word16(v, base) == {base + i : i \in {j \in 0 .. 15 : (v \div Pow2(j)) % 2 = 1}}
Hex64(h3, h2, h1, h0) ==
    Word16(h3, 48) \cup Word16(h2, 32) \cup Word16(h1, 16) \cup Word16(h0, 0)

\* ---------------------------------------------------------------- tables
\* var RC: the 24 round constants (hex groups written in decimal:
\* 0x8082 = 32898, 0x8000 = 32768, 0x808A = 32906, ...).
RC == << Hex64(0, 0, 0, 1),             \* 0x0000000000000001
         Hex64(0, 0, 0, 32898),         \* 0x0000000000008082
         Hex64(32768, 0, 0, 32906),     \* 0x800000000000808A
         Hex64(32768, 0, 32768, 32768), \* 0x8000000080008000
         Hex64(0, 0, 0, 32907),         \* 0x000000000000808B
         Hex64(0, 0, 32768, 1),         \* 0x0000000080000001
         Hex64(32768, 0, 32768, 32897), \* 0x8000000080008081
         Hex64(32768, 0, 0, 32777),     \* 0x8000000000008009
         Hex64(0, 0, 0, 138),           \* 0x000000000000008A
         Hex64(0, 0, 0, 136),           \* 0x0000000000000088
         Hex64(0, 0, 32768, 32777),     \* 0x0000000080008009
         Hex64(0, 0, 32768, 10),        \* 0x000000008000000A
         Hex64(0, 0, 32768, 32907),     \* 0x000000008000808B
         Hex64(32768, 0, 0, 139),       \* 0x800000000000008B
         Hex64(32768, 0, 0, 32905),     \* 0x8000000000008089
         Hex64(32768, 0, 0, 32771),     \* 0x8000000000008003
         Hex64(32768, 0, 0, 32770),     \* 0x8000000000008002
         Hex64(32768, 0, 0, 128),       \* 0x8000000000000080
         Hex64(0, 0, 0, 32778),         \* 0x000000000000800A
         Hex64(32768, 0, 32768, 10),    \* 0x800000008000000A
         Hex64(32768, 0, 32768, 32897), \* 0x8000000080008081
         Hex64(32768, 0, 0, 32896),     \* 0x8000000000008080
         Hex64(0, 0, 32768, 1),         \* 0x0000000080000001
         Hex64(32768, 0, 32768, 32776)  \* 0x8000000080008008
      >>

\* var r: the rotation offsets, r[x][y] of the code is r[x+1][y+1].
r == << <<0, 36, 3, 41, 18>>,
        <<1, 44, 10, 45, 2>>,
        <<62, 6, 43, 15, 61>>,
        <<28, 55, 25, 21, 56>>,
        <<27, 20, 39, 8, 14>> >>

\* ------------------------------------------------------------ permutation
\* The loops of the code are recursive operators, one level for each pass.
\* TLC evaluates an operator's argument only when it is used; the test
\* next = next in a loop (always true) makes it compute the result of a pass
\* before the next pass starts, as the code does.
\* type state: a [5][5]uint64, a[x][y] of the code is A[x+1][y+1].
ZeroRow == << {}, {}, {}, {}, {} >>
\* The zero value of state: all lanes zero.
ZeroState == << ZeroRow, ZeroRow, ZeroRow, ZeroRow, ZeroRow >>

\* func rotl64(x uint64, y int) uint64
rotl64(x, y) == Or(Shl(x, y), Shr(x, 64 - y))

\* func (s *state) theta(): the two loops of the code.  c is complete before
\* the second loop starts, so each d[x] reads the parities of the state
\* as it was on entry.
theta(A) ==
    LET c == [x \in 0 .. 4 |->
                Xor(Xor(Xor(Xor(A[x + 1][1], A[x + 1][2]), A[x + 1][3]),
                        A[x + 1][4]), A[x + 1][5])]
        cc == << c[0], c[1], c[2], c[3], c[4] >>
        d(x) == Xor(cc[((x + 4) % 5) + 1], rotl64(cc[((x + 1) % 5) + 1], 1))
        row(x) == LET dx == d(x)
                  IN << Xor(A[x + 1][1], dx), Xor(A[x + 1][2], dx),
                        Xor(A[x + 1][3], dx), Xor(A[x + 1][4], dx),
                        Xor(A[x + 1][5], dx) >>
    IN << row(0), row(1), row(2), row(3), row(4) >>

\* func (s *state) rhoPi(): the passes of the double loop in the order they
\* run, pass k being the one for x = k / 5, y = k % 5.  Each pass saves the
\* lane in current, overwrites it with rotl64(temp, r[x][y]) and hands
\* current on as the next temp.
RECURSIVE rhoPiLoop(_, _, _)
rhoPiLoop(A, temp, k) ==
    IF k = 25 THEN A
    ELSE LET x == k \div 5
             y == k % 5
             current == A[x + 1][y + 1]
             next == [A EXCEPT ![x + 1][y + 1] = rotl64(temp, r[x + 1][y + 1])]
         IN IF next = next THEN rhoPiLoop(next, current, k + 1) ELSE next
\* temp := s.a[1][0], then the loop
rhoPi(A) == rhoPiLoop(A, A[2][1], 0)

\* The rho and pi steps of Keccak-f[1600] as FIPS 202 defines them, for
\* comparison: the lane at (x, y) is rotated by r[x][y] and moved to
\* (y, (2x + 3y) mod 5).  from(X, Y) is the (x, y) whose lane lands on (X, Y).
StdRhoPi(A) ==
    LET from(X, Y) == CHOOSE xy \in (0 .. 4) \X (0 .. 4) :
                          xy[2] = X /\ (2 * xy[1] + 3 * xy[2]) % 5 = Y
        lane(X, Y) == LET x == from(X, Y)[1]
                          y == from(X, Y)[2]
                      IN rotl64(A[x + 1][y + 1], r[x + 1][y + 1])
        row(X) == << lane(X, 0), lane(X, 1), lane(X, 2), lane(X, 3), lane(X, 4) >>
    IN << row(0), row(1), row(2), row(3), row(4) >>

\* func (s *state) chi(): b is a copy of the state on entry.
chi(A) ==
    LET b == A
        lane(x, y) == Xor(b[x + 1][y + 1],
                          And(Not(b[((x + 1) % 5) + 1][y + 1]),
                              b[((x + 2) % 5) + 1][y + 1]))
        row(x) == << lane(x, 0), lane(x, 1), lane(x, 2), lane(x, 3), lane(x, 4) >>
    IN << row(0), row(1), row(2), row(3), row(4) >>

\* func (s *state) iota(round int)
iota(A, round) == [A EXCEPT ![1][1] = Xor(A[1][1], RC[round + 1])]

\* One pass of the loop body of keccakF1600.
Round(A, i) == iota(chi(rhoPi(theta(A))), i)

\* func (s *state) keccakF1600(): for i := 0; i < 24; i++ { ... }.
RECURSIVE keccakLoop(_, _)
keccakLoop(A, i) ==
    IF i = 24 THEN A
    ELSE LET next == Round(A, i)
         IN IF next = next THEN keccakLoop(next, i + 1) ELSE next
keccakF1600(A) == keccakLoop(A, 0)

\* ---------------------------------------------------------------- padding
\* RATE / 8: the bytes of one block
RateBytes == RATE \div 8

\* x | y on bytes
OrByte(x, y) == LowByte(Or(ByteLane(x), ByteLane(y)))

\* padLen with the remainder reduced modulo the rate: a message that fills its
\* last block gets no padding.
padLenNoFullBlock(n, rate) ==
    LET remaining == (rate - ((n * 8) % rate)) % rate
    IN (remaining + 7) \div 8

\* padLen with the length of the message taken in bytes where the rate is
\* in bits.
padLenBytes(n, rate) ==
    LET rem == rate - (n % rate)
        remaining == IF rem = 0 THEN rate ELSE rem
    IN (remaining + 7) \div 8

\* pad, lines 111-116: the number of padding bytes for a message of n bytes.
padLen(n, rate) ==
    LET rem == rate - ((n * 8) % rate)
        remaining == IF rem = 0 THEN rate ELSE rem
    IN (remaining + 7) \div 8

\* padding with the last byte assigned 0x80 where the code ORs it in.
paddingAssign(n, rate) ==
    LET len == padLen(n, rate)
        first(k) == IF k = 1 THEN 6 ELSE 0
        last(k) == IF k = len THEN 128 ELSE first(k)
    IN [k \in 1 .. len |-> last(k)]

\* pad, lines 117-119: make([]byte, padLen) is all zero; padding[0] = 0x06
\* sets byte 0; padding[len(padding)-1] |= 0x80 then ORs 0x80 into the last
\* byte, which is byte 0 again when padLen is 1.  Defined for padLen >= 1; the
\* code panics on padding[0] otherwise (PadPanics).
padding(n, rate) ==
    LET len == padLen(n, rate)
        made(k) == 0
        first(k) == IF k = 1 THEN 6 ELSE made(k)
        last(k) == IF k = len THEN OrByte(first(k), 128) ELSE first(k)
    IN [k \in 1 .. len |-> last(k)]

\* func pad(message []byte, rate int) []byte: the bytes of the slice returned.
pad(message, rate) == message \o padding(Len(message), rate)

\* ----------------------------------------------------------------- sponge
\* laneOf with the coordinates taken row by row.
laneOfRowMajor(wordIndex) == << wordIndex \div 5, wordIndex % 5 >>

\* sha3_256, line 140: s.a[wordIndex%5][wordIndex/5], the lane (x, y) of a word
laneOf(wordIndex) == << wordIndex % 5, wordIndex \div 5 >>

\* sha3_256, lines 135-142: the passes j, j+1, ..., jEnd-1 of the inner loop
\* for the block that starts at byte i of p.  Returns the state and the
\* number of bytes XORed in so far.
RECURSIVE absorbLoop(_, _, _, _, _, _)
absorbLoop(A, p, i, j, jEnd, cnt) ==
    IF j = jEnd THEN << A, cnt >>
    ELSE IF i + j < Len(p)
         THEN LET byteIndex == i + j
                  wordIndex == j \div 8
                  bytePosition == j % 8
                  x == laneOf(wordIndex)[1]
                  y == laneOf(wordIndex)[2]
                  next == [A EXCEPT ![x + 1][y + 1] =
                              Xor(A[x + 1][y + 1],
                                  Shl(ByteLane(p[byteIndex + 1]), bytePosition * 8))]
              IN IF next = next THEN absorbLoop(next, p, i, j + 1, jEnd, cnt + 1)
                 ELSE << next, cnt >>
         ELSE absorbLoop(A, p, i, j + 1, jEnd, cnt)

\* The passes j .. jEnd-1 of the inner loop, run 8 at a time (TLC's
\* evaluation depth does not allow 136 nested passes): passes j .. j+7, then
\* the rest.
RECURSIVE absorbRange(_, _, _, _, _, _)
absorbRange(A, p, i, j, jEnd, cnt) ==
    IF j >= jEnd THEN << A, cnt >>
    ELSE LET jMid == IF j + 8 < jEnd THEN j + 8 ELSE jEnd
             part == absorbLoop(A, p, i, j, jMid, cnt)
         IN IF part = part THEN absorbRange(part[1], p, i, jMid, jEnd, part[2])
            ELSE part
\* The whole inner loop, j = 0 .. RATE/8 - 1
absorbBlock(A, p, i) == absorbRange(A, p, i, 0, RateBytes, 0)

\* sha3_256, lines 147-158: output[outIndex] for outIndex = k - 1.  The outer
\* loop takes the lanes in the order wordIndex = 0, 1, ... and the inner one
\* 8 bytes of each, so byte outIndex is byte i = outIndex % 8 of lane
\* wordIndex = outIndex / 8.
squeeze(A) ==
    [k \in 1 .. 32 |->
        LET outIndex == k - 1
            wordIndex == outIndex \div 8
            i == outIndex % 8
            word == A[(wordIndex % 5) + 1][(wordIndex \div 5) + 1]
        IN LowByte(Shr(word, i * 8))]

\* blockLoopCond with the end included.
blockLoopCondInclusive(i, len) == i <= len

\* sha3_256, line 133: the condition of the loop over the blocks
blockLoopCond(i, len) == i < len

\* sha3_256, lines 133-144: the loop over the blocks of paddedMsg, from i on
RECURSIVE blockLoop(_, _, _)
blockLoop(A, p, i) ==
    IF blockLoopCond(i, Len(p))
    THEN LET next == keccakF1600(absorbBlock(A, p, i)[1])
         IN IF next = next THEN blockLoop(next, p, i + RateBytes) ELSE next
    ELSE A

\* func sha3_256(message []byte) []byte, as a function of the message bytes
sha3_256(message) == squeeze(blockLoop(ZeroState, pad(message, RATE), 0))

\* ---------------------------------------------------------------- callers
\* The calls are made by the threads of a caller (main makes them one after
\* the other, from one thread).  The caller owns one byte array, mem, of
\* BufCap bytes, and passes slices mem[0:len:cap] of it.  A slice with
\* cap = len leaves append no room, as a freshly converted []byte(input) of
\* exactly that size.
Threads == {1, 2}

\* The calls made in one run, over all threads.
MaxCalls == 2
\* The longest message given to pad on its own (SpecPad).
MaxLen == 273
\* The size of the caller's array: room for a message of two blocks and its
\* padding.
BufCap == 3 * RateBytes

\* What the caller's array holds at the start: "abcdefghijklmnopqrstuvwxyzabc..."
InitialByte(k) == 97 + ((k - 1) % 26)

Slice(n, c) == [len |-> n, cap |-> c]
NoSlice == Slice(0, 0)

\* The message lengths of Spec: empty, "abc", and one less than, exactly and
\* one more than a block.
Lens == {0, 3, RateBytes - 1, RateBytes, RateBytes + 1}
Inputs == {Slice(n, n) : n \in Lens} \cup {Slice(n, BufCap) : n \in Lens}
\* The slices two concurrent calls are given (SpecConc): one with no room for
\* the padding, and two of the same array with room for it, whose paddings
\* (06 00 80 and 06 80) end the first block.
ConcInputs == {Slice(3, 3), Slice(RateBytes - 3, BufCap), Slice(RateBytes - 2, BufCap)}
\* The bytes of the caller's array append writes for the slice In (line 121)
PadWrites(In) ==
    IF In.len + padLen(In.len, RATE) <= In.cap
    THEN (In.len + 1) .. (In.len + padLen(In.len, RATE))
    ELSE {}
\* The bytes of the caller's array that a concurrent call may write
ConcShared == UNION {PadWrites(In) : In \in ConcInputs}
\* The last byte of one step over the bytes a .. b of the caller's array: the
\* first of them that is in shared, and b when none is.
StepEnd(a, b, shared) ==
    IF \E q \in a .. b : q \in shared
    THEN CHOOSE q \in a .. b : q \in shared /\ \A u \in a .. (q - 1) : u \notin shared
    ELSE b
\* The slices pad is given on its own (SpecPad).
PadInputs == {Slice(n, n) : n \in 0 .. MaxLen} \cup {Slice(n, BufCap) : n \in 0 .. MaxLen}

VARIABLES
    mem,        \* the caller's array, mem[k] is its byte k-1
    calls,      \* the calls made so far
    pc,         \* pc[t]: where thread t is in sha3_256
    message,    \* message[t]: the slice thread t passed
    s,          \* s[t]: the state of t's call
    paddedMsg,  \* paddedMsg[t]: the slice pad returned: in the caller's array
                \* (inplace) or in a new one (fresh[t]), and its length
    fresh,      \* fresh[t]: the array append allocated, when it did
    copied,     \* copied[t]: the bytes append has copied so far
    i,          \* i[t]: the loop variable of the loop over the blocks
    j,          \* j[t]: the loop variable of the inner loop
    cnt,        \* cnt[t]: the bytes of the block XORed in so far
    output,     \* output[t]: the digest
    \* what follows records what happened, for the properties
    m0,         \* m0[t]: the bytes of the message when the call was made
    mem0,       \* mem0[t]: the caller's array when the call was made
    before,     \* before[t]: the state before the last block was XORed in
    trace,      \* trace[t]: the events of the call, in order
    rd,         \* rd[t]: the bytes of mem the call has read
    wr,         \* wr[t]: the bytes of mem the call has written
    seen        \* the pairs (message bytes, digest) of the calls that returned

vars == << mem, calls, pc, message, s, paddedMsg, fresh, copied, i, j, cnt,
           output, m0, mem0, before, trace, rd, wr, seen >>

\* newState with the state object of the thread's last call used again.
staleState(t) == s[t]

\* sha3_256, line 127: s := new(state)
newState(t) == ZeroState

Event(e, k, n) == [ev |-> e, block |-> k, bytes |-> n]

\* The bytes of paddedMsg[t], as the call reads them now.
Padded(t) ==
    IF paddedMsg[t].inplace THEN SubSeq(mem, 1, paddedMsg[t].len) ELSE fresh[t]

\* k is an index into an array or slice of n elements
IndexOK(k, n) == 0 <= k /\ k < n

\* pad, lines 117-119: make panics on a negative length, padding[0] and
\* padding[len(padding)-1] on an empty buffer.
PadPanics(n, rate) ==
    LET len == padLen(n, rate)
    IN len < 0 \/ ~IndexOK(0, len) \/ ~IndexOK(len - 1, len)

\* sha3_256, line 140: the indices into s.a of the inner loop
AbsorbPanics ==
    \E q \in 0 .. (RateBytes - 1) :
        ~IndexOK((q \div 8) % 5, 5) \/ ~IndexOK((q \div 8) \div 5, 5)

\* theta, rhoPi, chi, iota: the indices into s.a, r and RC of the 24 rounds
PermutePanics ==
    \/ \E round \in 0 .. 23 : ~IndexOK(round, Len(RC))
    \/ \E x \in 0 .. 4 : ~IndexOK(x, Len(r)) \/ \E y \in 0 .. 4 : ~IndexOK(y, Len(r[x + 1]))
    \/ \E x \in 0 .. 4 : ~IndexOK((x + 4) % 5, 5) \/ ~IndexOK((x + 1) % 5, 5)
                         \/ ~IndexOK((x + 2) % 5, 5)

\* sha3_256, lines 151-158: the indices into s.a and output
SqueezePanics ==
    \E outIndex \in 0 .. 31 :
        \/ ~IndexOK((outIndex \div 8) % 5, 5)
        \/ ~IndexOK((outIndex \div 8) \div 5, 5)
        \/ ~IndexOK(outIndex, 32)

Init ==
    /\ mem = [k \in 1 .. BufCap |-> InitialByte(k)]
    /\ calls = 0
    /\ pc = [t \in Threads |-> "idle"]
    /\ message = [t \in Threads |-> NoSlice]
    /\ s = [t \in Threads |-> ZeroState]
    /\ paddedMsg = [t \in Threads |-> [inplace |-> FALSE, len |-> 0]]
    /\ fresh = [t \in Threads |-> << >>]
    /\ copied = [t \in Threads |-> 0]
    /\ i = [t \in Threads |-> 0]
    /\ j = [t \in Threads |-> 0]
    /\ cnt = [t \in Threads |-> 0]
    /\ output = [t \in Threads |-> << >>]
    /\ m0 = [t \in Threads |-> << >>]
    /\ mem0 = [t \in Threads |-> << >>]
    /\ before = [t \in Threads |-> ZeroState]
    /\ trace = [t \in Threads |-> << >>]
    /\ rd = [t \in Threads |-> {}]
    /\ wr = [t \in Threads |-> {}]
    /\ seen = {}

\* Thread t calls sha3_256 with a slice of In: lines 125-127.
Call(t, In) ==
    /\ pc[t] = "idle"
    /\ calls < MaxCalls
    /\ \E m \in In :
        /\ message' = [message EXCEPT ![t] = m]
        /\ m0' = [m0 EXCEPT ![t] = SubSeq(mem, 1, m.len)]
    /\ calls' = calls + 1
    /\ s' = [s EXCEPT ![t] = newState(t)]
    /\ mem0' = [mem0 EXCEPT ![t] = mem]
    /\ pc' = [pc EXCEPT ![t] = "pad"]
    /\ UNCHANGED << mem, paddedMsg, fresh, copied, i, j, cnt, output, before, trace,
                    rd, wr, seen >>

\* The reads and writes of the caller's array are made byte by byte, and
\* nothing orders them against those of another thread.  The actions that
\* make them take the set of the bytes another thread may write during the
\* call (shared), and one step makes the accesses up to and including the
\* next one to a byte of that set: the accesses to the other bytes are reads
\* of bytes nobody writes, which give the same values wherever the steps of
\* the other threads fall, so they are taken with the access that follows.
\* With one caller thread the set is empty and a step is the whole loop.  The
\* steps on what the call owns (the state, a newly allocated array) are taken
\* together in the same way.

\* Line 130, paddedMsg := pad(message, RATE), up to the append: pad's lines
\* 111-119 make the padding, and append finds room for it in the array of
\* message when len + padLen <= cap, and allocates a new array when not.
Pad(t) ==
    /\ pc[t] = "pad"
    /\ LET n == message[t].len
           c == message[t].cap
       IN IF PadPanics(n, RATE)
          THEN /\ pc' = [pc EXCEPT ![t] = "panic"]
               /\ UNCHANGED << paddedMsg, fresh, copied >>
          ELSE LET len == n + Len(padding(n, RATE))
               IN /\ paddedMsg' = [paddedMsg EXCEPT ![t] =
                                      [inplace |-> len <= c, len |-> len]]
                  /\ fresh' = [fresh EXCEPT ![t] = << >>]
                  /\ copied' = [copied EXCEPT ![t] = 0]
                  /\ pc' = [pc EXCEPT ![t] = "append"]
    /\ UNCHANGED << mem, calls, message, s, i, j, cnt, output, m0, mem0, before,
                    trace, rd, wr, seen >>

\* pad, line 121, append(message, padding...): in place, the bytes of the
\* padding are written after the message in the caller's array; otherwise
\* the bytes of the message are read from the caller's array into the new
\* one, and the padding follows them there.  Then pad returns and the loop
\* over the blocks starts (line 133: i := 0; i < len(paddedMsg)).
AppendPadding(t, shared) ==
    /\ pc[t] = "append"
    /\ LET n == message[t].len
           pd == padding(n, RATE)
           len == paddedMsg[t].len
           k == copied[t]
       IN IF paddedMsg[t].inplace
          THEN LET kEnd == StepEnd(n + k + 1, len, shared) - n
               IN /\ mem' = [q \in 1 .. BufCap |->
                               IF n + k < q /\ q <= n + kEnd THEN pd[q - n] ELSE mem[q]]
                  /\ wr' = [wr EXCEPT ![t] = @ \cup ((n + k + 1) .. (n + kEnd))]
                  /\ IF n + kEnd = len
                     THEN /\ copied' = [copied EXCEPT ![t] = 0]
                          /\ i' = [i EXCEPT ![t] = 0]
                          /\ pc' = [pc EXCEPT ![t] =
                                      IF blockLoopCond(0, len) THEN "absorb" ELSE "squeeze"]
                     ELSE /\ copied' = [copied EXCEPT ![t] = kEnd]
                          /\ UNCHANGED << i, pc >>
                  /\ UNCHANGED << fresh, rd >>
          ELSE LET kEnd == StepEnd(k + 1, n, shared)
               IN /\ fresh' = [fresh EXCEPT ![t] =
                                 @ \o SubSeq(mem, k + 1, kEnd)
                                   \o (IF kEnd = n THEN pd ELSE << >>)]
                  /\ rd' = [rd EXCEPT ![t] = @ \cup ((k + 1) .. kEnd)]
                  /\ IF kEnd = n
                     THEN /\ copied' = [copied EXCEPT ![t] = 0]
                          /\ i' = [i EXCEPT ![t] = 0]
                          /\ pc' = [pc EXCEPT ![t] =
                                      IF blockLoopCond(0, len) THEN "absorb" ELSE "squeeze"]
                     ELSE /\ copied' = [copied EXCEPT ![t] = kEnd]
                          /\ UNCHANGED << i, pc >>
                  /\ UNCHANGED << mem, wr >>
    /\ UNCHANGED << calls, message, s, paddedMsg, j, cnt, output, m0, mem0, before,
                    trace, seen >>

\* Lines 135-142: passes of the inner loop, which XORs the block at i into
\* the state; each pass reads one byte of paddedMsg.  After the last pass
\* the block is in.
Absorb(t, shared) ==
    /\ pc[t] = "absorb"
    /\ IF AbsorbPanics
       THEN /\ pc' = [pc EXCEPT ![t] = "panic"]
            /\ UNCHANGED << s, before, trace, rd, j, cnt >>
       ELSE LET jEnd == IF paddedMsg[t].inplace
                        THEN StepEnd(i[t] + j[t] + 1, i[t] + RateBytes, shared) - i[t]
                        ELSE RateBytes
                res == absorbRange(s[t], Padded(t), i[t], j[t], jEnd, cnt[t])
            IN /\ s' = [s EXCEPT ![t] = res[1]]
               /\ before' = [before EXCEPT ![t] = IF j[t] = 0 THEN s[t] ELSE @]
               /\ rd' = [rd EXCEPT ![t] =
                           IF paddedMsg[t].inplace
                           THEN @ \cup {q \in (i[t] + j[t] + 1) .. (i[t] + jEnd) :
                                           q <= paddedMsg[t].len}
                           ELSE @]
               /\ IF jEnd = RateBytes
                  THEN /\ trace' = [trace EXCEPT ![t] =
                                       Append(@, Event("xor", i[t] \div RateBytes, res[2]))]
                       /\ j' = [j EXCEPT ![t] = 0]
                       /\ cnt' = [cnt EXCEPT ![t] = 0]
                       /\ pc' = [pc EXCEPT ![t] = "permute"]
                  ELSE /\ j' = [j EXCEPT ![t] = jEnd]
                       /\ cnt' = [cnt EXCEPT ![t] = res[2]]
                       /\ UNCHANGED << trace, pc >>
    /\ UNCHANGED << mem, calls, message, paddedMsg, fresh, copied, i, output, m0, mem0,
                    wr, seen >>

\* Line 143, s.keccakF1600(), and the step of the loop over the blocks
\* (i += RATE / 8; i < len(paddedMsg)).
Permute(t) ==
    /\ pc[t] = "permute"
    /\ IF PermutePanics
       THEN /\ pc' = [pc EXCEPT ![t] = "panic"]
            /\ UNCHANGED << s, trace, i >>
       ELSE /\ s' = [s EXCEPT ![t] = keccakF1600(s[t])]
            /\ trace' = [trace EXCEPT ![t] =
                            Append(@, Event("perm", i[t] \div RateBytes, 0))]
            /\ i' = [i EXCEPT ![t] = @ + RateBytes]
            /\ pc' = [pc EXCEPT ![t] =
                        IF blockLoopCond(i[t] + RateBytes, paddedMsg[t].len)
                        THEN "absorb" ELSE "squeeze"]
    /\ UNCHANGED << mem, calls, message, paddedMsg, fresh, copied, j, cnt, output,
                    m0, mem0, before, rd, wr, seen >>

\* Lines 147-160: the digest is read from the state and returned.
Squeeze(t) ==
    /\ pc[t] = "squeeze"
    /\ IF SqueezePanics
       THEN /\ pc' = [pc EXCEPT ![t] = "panic"]
            /\ UNCHANGED << output, trace >>
       ELSE /\ output' = [output EXCEPT ![t] = squeeze(s[t])]
            /\ trace' = [trace EXCEPT ![t] = Append(@, Event("squeeze", 0, 0))]
            /\ pc' = [pc EXCEPT ![t] = "return"]
    /\ UNCHANGED << mem, calls, message, s, paddedMsg, fresh, copied, i, j, cnt,
                    m0, mem0, before, rd, wr, seen >>

\* The caller has the digest.  The locals of the call are dead; the state
\* object keeps its last contents until the next call makes its own.
Return(t) ==
    /\ pc[t] = "return"
    /\ seen' = seen \cup {<< m0[t], output[t] >>}
    /\ pc' = [pc EXCEPT ![t] = "idle"]
    /\ message' = [message EXCEPT ![t] = NoSlice]
    /\ paddedMsg' = [paddedMsg EXCEPT ![t] = [inplace |-> FALSE, len |-> 0]]
    /\ fresh' = [fresh EXCEPT ![t] = << >>]
    /\ i' = [i EXCEPT ![t] = 0]
    /\ output' = [output EXCEPT ![t] = << >>]
    /\ m0' = [m0 EXCEPT ![t] = << >>]
    /\ mem0' = [mem0 EXCEPT ![t] = << >>]
    /\ before' = [before EXCEPT ![t] = ZeroState]
    /\ trace' = [trace EXCEPT ![t] = << >>]
    /\ rd' = [rd EXCEPT ![t] = {}]
    /\ wr' = [wr EXCEPT ![t] = {}]
    /\ UNCHANGED << mem, calls, s, copied, j, cnt >>

\* One caller thread, as in main: the calls follow one another.
Next ==
    \E t \in {1} :
        \/ Call(t, Inputs)
        \/ Pad(t)
        \/ AppendPadding(t, {})
        \/ Absorb(t, {})
        \/ Permute(t)
        \/ Squeeze(t)
        \/ Return(t)

Spec == Init /\ [][Next]_vars

\* Two caller threads: their calls interleave access by access to the bytes
\* that either may write.
NextConc ==
    \E t \in Threads :
        \/ Call(t, ConcInputs)
        \/ Pad(t)
        \/ AppendPadding(t, ConcShared)
        \/ Absorb(t, ConcShared)
        \/ Permute(t)
        \/ Squeeze(t)
        \/ Return(t)

SpecConc == Init /\ [][NextConc]_vars

\* pad on its own, on every message length up to MaxLen.
NextPad ==
    \E t \in {1} :
        \/ Call(t, PadInputs)
        \/ Pad(t)
        \/ AppendPadding(t, {})

SpecPad == Init /\ [][NextPad]_vars

\* ------------------------------------------------------------- properties
Returned(t) == pc[t] = "return"
\* pad has returned to the call of thread t
Padded_(t) == pc[t] \in {"absorb", "squeeze"}

\* "abc" and the FIPS 202 digests of "abc" and of the empty message
MsgAbc == << 97, 98, 99 >>
\* 3a985da7 4fe225b2 045c172d 6bd390bd 855f086e 3e9d525b 46bfe245 11431532
DigestAbc ==
    << 58, 152, 93, 167, 79, 226, 37, 178, 4, 92, 23, 45, 107, 211, 144, 189,
       133, 95, 8, 110, 62, 157, 82, 91, 70, 191, 226, 69, 17, 67, 21, 50 >>
\* a7ffc6f8 bf1ed766 51c14756 a061d662 f580ff4d e43b49fa 82d80a4b 80f8434a
DigestEmpty ==
    << 167, 255, 198, 248, 191, 30, 215, 102, 81, 193, 71, 86, 160, 97, 214, 98,
       245, 128, 255, 77, 228, 59, 73, 250, 130, 216, 10, 75, 128, 248, 67, 74 >>

\* C1: a call on "abc" returns the FIPS 202 digest 3a985da7...11431532, and a
\* call on the empty message returns a7ffc6f8...80f8434a.
C1_StandardVectors ==
    \A t \in Threads :
        Returned(t) =>
            /\ (m0[t] = MsgAbc => output[t] = DigestAbc)
            /\ (m0[t] = << >> => output[t] = DigestEmpty)

\* The steps a call has yet to take, at most: two for each block from i on,
\* then the reading of the digest.
Remaining(t) ==
    CASE pc[t] = "pad" -> 4 + 2 * ((message[t].len \div RateBytes) + 1)
      [] pc[t] = "append" -> 3 + 2 * ((message[t].len \div RateBytes) + 1)
      [] pc[t] = "absorb" -> 2 + 2 * ((paddedMsg[t].len - i[t]) \div RateBytes)
      [] pc[t] = "permute" -> 1 + 2 * ((paddedMsg[t].len - i[t]) \div RateBytes)
      [] pc[t] = "squeeze" -> 1
      [] OTHER -> 0

\* C2: no call reaches a panic (an index out of range), every digest returned
\* is 32 bytes, and every call terminates: each step of a call leaves it
\* strictly fewer steps to take, and none leaves it stuck.
C2_Total ==
    /\ [](\A t \in Threads :
             /\ pc[t] # "panic"
             /\ Remaining(t) >= 0
             /\ Returned(t) => (Len(output[t]) = 32 /\ \A k \in 1 .. 32 : output[t][k] \in Byte))
    /\ [][\A t \in Threads :
             (pc[t] \in {"pad", "append", "absorb", "permute", "squeeze"} /\ pc'[t] # pc[t]) =>
                 (pc'[t] # "panic" /\ Remaining(t)' < Remaining(t))]_vars

\* A call on a message of two blocks and one byte has returned 32 bytes.
C2_Witness ==
    /\ Returned(1)
    /\ Len(m0[1]) = RateBytes + 1
    /\ Len(output[1]) = 32

\* C3: a call returns the digest that every earlier call on the same message
\* bytes returned, whatever calls came before and whatever slice carried the
\* bytes.
C3_Deterministic ==
    \A t \in Threads :
        Returned(t) => \A e \in seen : e[1] = m0[t] => e[2] = output[t]

\* A second call on "abc", this one with room to append in place, after a
\* first one returned.
C3_Witness ==
    /\ Returned(1)
    /\ m0[1] = MsgAbc
    /\ paddedMsg[1].inplace
    /\ \E e \in seen : e[1] = MsgAbc /\ e[2] = output[1]

\* C4: the slice pad returns is a positive multiple of 136 bytes long and
\* longer than the message by exactly 136 - (len(m) mod 136) bytes; 135 bytes
\* pad to 136, 136 bytes to 272 and 137 bytes to 272.
C4_PadLength ==
    \A t \in Threads :
        Padded_(t) =>
            LET n == message[t].len
                len == paddedMsg[t].len
            IN /\ Len(Padded(t)) = len
               /\ len > 0
               /\ len % 136 = 0
               /\ len > n
               /\ len - n = 136 - (n % 136)
               /\ (n = 135 => len = 136)
               /\ (n = 136 => len = 272)
               /\ (n = 137 => len = 272)

\* pad has returned 272 bytes for a message of exactly one block.
C4_Witness ==
    /\ Padded_(1)
    /\ message[1].len = 136
    /\ paddedMsg[1].len = 272
    /\ Len(Padded(1)) = 272

\* C5: the slice pad returns is the message followed by a buffer P whose
\* single byte is 0x86 when it has one, and whose first byte is 0x06, last
\* byte 0x80 and other bytes 0x00 when it has more.
C5_PadBytes ==
    \A t \in Threads :
        Padded_(t) =>
            LET n == message[t].len
                p == Padded(t)
                P == SubSeq(p, n + 1, Len(p))
            IN /\ SubSeq(p, 1, n) = m0[t]
               /\ Len(P) >= 1
               /\ (Len(P) = 1 => P[1] = 134)
               /\ (Len(P) >= 2 =>
                     /\ P[1] = 6
                     /\ P[Len(P)] = 128
                     /\ \A k \in 2 .. (Len(P) - 1) : P[k] = 0)

\* pad has returned for a message of 135 bytes: one padding byte, 0x86.
C5_Witness ==
    /\ Padded_(1)
    /\ message[1].len = 135
    /\ Len(Padded(1)) = 136
    /\ Padded(1)[136] = 134

\* C6: when a call returns, every byte of the caller's array is what it was
\* when the call was made, the bytes past len(m) up to the capacity included.
C6_NoSideEffect ==
    \A t \in Threads : Returned(t) => mem = mem0[t]

\* C7: with two threads calling, no byte of memory written by one call is
\* read or written by the other, and each call returns the digest of the
\* bytes its message held when it was made, as it does when run alone.
C7_ConcurrentSafe ==
    /\ \A t \in Threads : \A u \in Threads \ {t} :
           wr[t] \cap (rd[u] \cup wr[u]) = {}
    /\ \A t \in Threads : Returned(t) => output[t] = sha3_256(m0[t])

\* C8: rhoPi yields what rho followed by pi yields, on the state the first
\* round of each keccakF1600 call hands it (the state after theta).
C8_RhoPiStandard ==
    \A t \in Threads :
        pc[t] = "permute" => rhoPi(theta(s[t])) = StdRhoPi(theta(s[t]))

\* The events of a call on n bytes: for each of the n div 136 + 1 blocks, in
\* order, the block XORed in full and one permutation; then the digest read.
ExpectedTrace(n) ==
    LET blocks == (n \div 136) + 1
    IN [k \in 1 .. (2 * blocks + 1) |->
           IF k = 2 * blocks + 1 THEN Event("squeeze", 0, 0)
           ELSE IF k % 2 = 1 THEN Event("xor", (k - 1) \div 2, 136)
           ELSE Event("perm", (k - 2) \div 2, 0)]

\* C9: the events of a call on n bytes are block 0 XORed in full (136 bytes),
\* keccakF1600, block 1 XORed in full, keccakF1600, ..., with n div 136 + 1
\* permutations in all, and then the reading of the digest with no
\* permutation in between; the sequence depends on n alone.
C9_EventOrder ==
    \A t \in Threads :
        /\ Returned(t) => trace[t] = ExpectedTrace(Len(m0[t]))
        /\ pc[t] \in {"absorb", "permute", "squeeze"} =>
              \E k \in 0 .. Len(ExpectedTrace(Len(m0[t]))) :
                  trace[t] = SubSeq(ExpectedTrace(Len(m0[t])), 1, k)

\* A call on 137 bytes has returned after two blocks and two permutations.
C9_Witness ==
    /\ Returned(1)
    /\ Len(m0[1]) = 137
    /\ Len(trace[1]) = 5
    /\ trace[1][4] = Event("perm", 1, 0)

\* The lane with index w = x + 5y
LaneAt(A, w) == A[(w % 5) + 1][(w \div 5) + 1]
\* The uint64 whose byte k (k = 0 the least significant) is b[8w + k]
LittleEndianWord(b, w) ==
    UNION {{8 * k + e : e \in ByteLane(b[8 * w + k + 1])} : k \in 0 .. 7}

\* C10: after a block is XORed in, each lane w = x + 5y < 17 is what it was
\* XOR the little-endian word of block bytes 8w .. 8w+7, and the lanes
\* w >= 17 are what they were.
C10_AbsorbLanes ==
    \A t \in Threads :
        pc[t] = "permute" =>
            LET block == SubSeq(Padded(t), i[t] + 1, i[t] + 136)
            IN \A w \in 0 .. 24 :
                   LaneAt(s[t], w) =
                       IF w < 17
                       THEN Xor(LaneAt(before[t], w), LittleEndianWord(block, w))
                       ELSE LaneAt(before[t], w)

\* The second block of a message has been XORed into a state that the first
\* permutation filled.
C10_Witness ==
    /\ pc[1] = "permute"
    /\ i[1] = 136
    /\ before[1] # ZeroState
    /\ s[1] # before[1]
    /\ \E w \in 17 .. 24 : LaneAt(s[1], w) # {}
=============================================================================
